---- MODULE Spec2Model ----
(***************************************************************************)
(* A model of wav-cli-editor: the WAV container codec (wav_io.py and the   *)
(* WAVProcessor class), the sample transforms (wav_processing.py and       *)
(* WAVProcessor.amplify) and the command-line pipeline (wav_cli.py).       *)
(*                                                                         *)
(* Files and sample buffers are sequences of bytes (0..255).  A Python     *)
(* value that may be None is a sequence of length 0 (None) or 1 (the       *)
(* value).  An unsigned 32-bit header field is kept as its four            *)
(* little-endian bytes, and arithmetic that Python does on unbounded       *)
(* integers is done on little-endian base-256 digit sequences, so that no  *)
(* value is ever cut to the checker's integer width.                       *)
(***************************************************************************)
EXTENDS Integers, Sequences, FiniteSets, TLC

VARIABLES
    input,            \* bytes of the file at the input path
    output,           \* the file at the output path: None, or its bytes
    pc,               \* position of the running program
    err,              \* the exception that ended the last call ("none": it returned)
    sample_rate,      \* None or the 4 little-endian bytes of the sample rate
    num_channels,     \* None or an integer
    bits_per_sample,  \* None or an integer
    data_size,        \* None or the 4 little-endian bytes of the declared data size
    wav_data,         \* None or the sample bytes
    args,             \* the parsed command line (action, gain, threshold)
    before,           \* the sample bytes handed to the last transform
    calls             \* the core operations performed so far, in order

vars == <<input, output, pc, err, sample_rate, num_channels, bits_per_sample,
          data_size, wav_data, args, before, calls>>

-----------------------------------------------------------------------------
(* Optional values and small helpers *)

None == <<>>

Some(x) == <<x>>

IsNone(o) == o = <<>>

Get(o) == o[1]

Min(a, b) == IF a <= b THEN a ELSE b

Max(a, b) == IF a >= b THEN a ELSE b

Abs(a) == IF a < 0 THEN -a ELSE a

Byte == 0..255

-----------------------------------------------------------------------------
(* Unbounded naturals as little-endian base-256 digits (Python int) *)

RECURSIVE BigNorm(_)
\* the digits without high zero digits
BigNorm(x) ==
    IF x = <<>> THEN <<>>
    ELSE IF x[Len(x)] = 0 THEN BigNorm(SubSeq(x, 1, Len(x) - 1))
    ELSE x

RECURSIVE BigMulCarry(_, _, _)
\* x * k + c, for 0 <= k and 0 <= c small enough that a digit product fits
BigMulCarry(x, k, c) ==
    IF x = <<>> THEN (IF c = 0 THEN <<>> ELSE <<c % 256>> \o BigMulCarry(<<>>, k, c \div 256))
    ELSE LET t == x[1] * k + c
         IN  <<t % 256>> \o BigMulCarry(Tail(x), k, t \div 256)

BigMulSmall(x, k) == BigNorm(BigMulCarry(x, k, 0))

RECURSIVE BigDivRem(_, _, _)
\* floor division of x by d > 0, from the high digit down (r: running remainder)
BigDivRem(x, d, r) ==
    IF x = <<>> THEN <<>>
    ELSE LET t == r * 256 + x[Len(x)]
         IN  BigDivRem(SubSeq(x, 1, Len(x) - 1), d, t % d) \o <<t \div d>>

BigDivSmall(x, d) == BigNorm(BigDivRem(x, d, 0))

\* a non-negative integer below 2^31 as digits
RECURSIVE BigOfInt(_)
BigOfInt(n) == IF n = 0 THEN <<>> ELSE <<n % 256>> \o BigOfInt(n \div 256)

RECURSIVE BigCmpFrom(_, _, _)
\* digits i..1 of equally long x and y compared from the high end: -1, 0 or 1
BigCmpFrom(x, y, i) ==
    IF i = 0 THEN 0
    ELSE IF x[i] < y[i] THEN -1
    ELSE IF x[i] > y[i] THEN 1
    ELSE BigCmpFrom(x, y, i - 1)

\* normalised x against normalised y: -1, 0 or 1
BigCmp(x, y) ==
    IF Len(x) < Len(y) THEN -1
    ELSE IF Len(x) > Len(y) THEN 1
    ELSE BigCmpFrom(x, y, Len(x))

RECURSIVE BigAddCarry(_, _, _)
BigAddCarry(x, y, c) ==
    IF x = <<>> /\ y = <<>> THEN (IF c = 0 THEN <<>> ELSE <<c>>)
    ELSE LET a == IF x = <<>> THEN 0 ELSE x[1]
             b == IF y = <<>> THEN 0 ELSE y[1]
             t == a + b + c
         IN  <<t % 256>> \o BigAddCarry(IF x = <<>> THEN x ELSE Tail(x),
                                        IF y = <<>> THEN y ELSE Tail(y), t \div 256)

BigAdd(x, y) == BigNorm(BigAddCarry(x, y, 0))

RECURSIVE BigSubBorrow(_, _, _)
BigSubBorrow(x, y, c) ==
    IF x = <<>> THEN <<>>
    ELSE LET b == IF y = <<>> THEN 0 ELSE y[1]
             t == x[1] - b - c
         IN  <<t % 256>> \o BigSubBorrow(Tail(x), IF y = <<>> THEN y ELSE Tail(y),
                                         IF t < 0 THEN 1 ELSE 0)

\* x - y for x >= y
BigSub(x, y) == BigNorm(BigSubBorrow(x, y, 0))

RECURSIVE BigMul(_, _)
BigMul(x, y) ==
    IF y = <<>> \/ x = <<>> THEN <<>>
    ELSE BigAdd(BigMulSmall(x, y[1]),
                LET r == BigMul(x, Tail(y)) IN IF r = <<>> THEN r ELSE <<0>> \o r)

RECURSIVE BigQuotDigit(_, _, _, _)
\* the largest q in lo..hi with q * y <= r (lo qualifies)
BigQuotDigit(r, y, lo, hi) ==
    IF lo = hi THEN lo
    ELSE LET mid == (lo + hi + 1) \div 2
         IN  IF BigCmp(BigMulSmall(y, mid), r) <= 0 THEN BigQuotDigit(r, y, mid, hi)
             ELSE BigQuotDigit(r, y, lo, mid - 1)

RECURSIVE BigDivFrom(_, _, _, _)
\* long division of digits i..1 of x by y > 0 with running remainder r
BigDivFrom(x, y, i, r) ==
    IF i = 0 THEN <<>>
    ELSE LET t == BigNorm(<<x[i]>> \o r)
             q == BigQuotDigit(t, y, 0, 255)
         IN  BigDivFrom(x, y, i - 1, BigSub(t, BigMulSmall(y, q))) \o <<q>>

\* floor(x / y) for y > 0
BigDiv(x, y) == BigNorm(BigDivFrom(x, y, Len(x), <<>>))

\* the magnitude of an integer of the checker's width (|-2^31| included)
BigAbs(n) ==
    IF n >= 0 THEN BigOfInt(n) ELSE BigAdd(BigOfInt(-(n + 1)), <<1>>)

\* a signed unbounded integer: sign and magnitude (zero is not negative)
Signed(isneg, x) == [neg |-> isneg /\ x # <<>>, mag |-> x]

SignedOfInt(n) == Signed(n < 0, BigAbs(n))

SignedNeg(a) == Signed(~a.neg, a.mag)

SignedAdd(a, b) ==
    IF a.neg = b.neg THEN Signed(a.neg, BigAdd(a.mag, b.mag))
    ELSE IF BigCmp(a.mag, b.mag) >= 0 THEN Signed(a.neg, BigSub(a.mag, b.mag))
    ELSE Signed(b.neg, BigSub(b.mag, a.mag))

SignedSub(a, b) == SignedAdd(a, SignedNeg(b))

SignedMul(a, b) == Signed(a.neg # b.neg, BigMul(a.mag, b.mag))

\* a <= b
SignedLe(a, b) ==
    IF a.neg /\ ~b.neg THEN TRUE
    ELSE IF ~a.neg /\ b.neg THEN FALSE
    ELSE IF a.neg THEN BigCmp(a.mag, b.mag) >= 0
    ELSE BigCmp(a.mag, b.mag) <= 0

\* int(a / q) for q > 0: the quotient rounded toward zero
SignedTruncDiv(a, q) == Signed(a.neg, BigDiv(a.mag, q))

\* a as an integer of the checker's width, cut to [-2^31, 2^31 - 1]; every use
\* is followed by a clamp to bounds inside that range or has a smaller value
SignedToInt(a) ==
    IF BigCmp(a.mag, <<0, 0, 0, 128>>) >= 0
    THEN (IF a.neg THEN -2147483647 - 1 ELSE 2147483647)
    ELSE LET m == [i \in 1..4 |-> IF i <= Len(a.mag) THEN a.mag[i] ELSE 0]
             v == m[1] + 256 * m[2] + 65536 * m[3] + 16777216 * m[4]
         IN  IF a.neg THEN -v ELSE v

-----------------------------------------------------------------------------
(* struct.pack / struct.unpack of the little-endian header fields *)

\* struct.pack('<H', n): None when n is out of range (struct.error)
pack_H(n) == IF n < 0 \/ n > 65535 THEN None ELSE Some(<<n % 256, n \div 256>>)

\* struct.unpack('<H', b) of exactly two bytes
unpack_H(b) == b[1] + 256 * b[2]

\* struct.pack('<I', x) of a digit sequence: None when x >= 2^32 (struct.error)
pack_I(x) ==
    LET n == BigNorm(x)
    IN  IF Len(n) > 4 THEN None
        ELSE Some([i \in 1..4 |-> IF i <= Len(n) THEN n[i] ELSE 0])

\* f.read(n) for a size n read with struct.unpack('<I', ...): how many bytes
\* it returns when `remaining` bytes (fewer than 2^31) are left in the file
ReadCount(size, remaining) ==
    IF size[4] >= 128 THEN remaining
    ELSE Min(size[1] + 256 * size[2] + 65536 * size[3] + 16777216 * size[4], remaining)

\* the bytes f.read(n) returns at offset pos (a short read at the end of the file)
Read(f, pos, n) == SubSeq(f, pos + 1, Min(pos + n, Len(f)))

RIFF == <<82, 73, 70, 70>>

WAVE == <<87, 65, 86, 69>>

FMT == <<102, 109, 116, 32>>

DATA == <<100, 97, 116, 97>>

-----------------------------------------------------------------------------
(* Reading: wav_io.read_wav and WAVProcessor.read_wav parse alike *)

\* what a read has assigned when it returns or raises: e is the exception
\* ("none": it returned), the other fields None where not yet assigned
Parsed(e, nc, sr, bps, ds, data) ==
    [err |-> e, num_channels |-> nc, sample_rate |-> sr, bits_per_sample |-> bps,
     data_size |-> ds, wav_data |-> data]

RECURSIVE find_data_chunk(_, _)
\* the loop that skips chunks until the 'data' chunk ID: the offset after the
\* ID, or the exception raised
find_data_chunk(f, pos) ==
    LET chunk_id == Read(f, pos, 4)
        size == Read(f, pos + 4, 4)
    IN  IF chunk_id = <<>> THEN [err |-> "DataChunkNotFound", pos |-> pos]
        ELSE IF chunk_id = DATA THEN [err |-> "none", pos |-> pos + 4]
        ELSE IF Len(size) < 4 THEN [err |-> "StructError", pos |-> pos]
        ELSE find_data_chunk(f, pos + 8 + ReadCount(size, Len(f) - (pos + 8)))

\* a validation that looks at the bit depth before the channel count
validate_format_bits_first(nc, bps) ==
    IF bps \notin {8, 16, 24, 32} THEN "UnsupportedFormat"
    ELSE IF nc \notin {1, 2} THEN "UnsupportedChannelCount"
    ELSE "none"

\* the validation of the two header fields after the data has been read
validate_format(nc, bps) ==
    IF nc \notin {1, 2} THEN "UnsupportedChannelCount"
    ELSE IF bps \notin {8, 16, 24, 32} THEN "UnsupportedFormat"
    ELSE "none"

\* from the chunk scan on: nc, sr, bps are assigned
parse_chunks(f, nc, sr, bps) ==
    LET subchunk1_size == Read(f, 16, 4)
        ext == IF subchunk1_size[4] >= 128 THEN Len(f) - 36
               ELSE LET n == subchunk1_size[1] + 256 * subchunk1_size[2]
                             + 65536 * subchunk1_size[3] + 16777216 * subchunk1_size[4]
                    IN  IF n > 16 THEN Min(n - 16, Len(f) - 36) ELSE 0
        found == find_data_chunk(f, 36 + ext)
        ds == Read(f, found.pos, 4)
        data == Read(f, found.pos + 4, ReadCount(ds, Len(f) - (found.pos + 4)))
    IN  IF found.err # "none"
        THEN Parsed(found.err, Some(nc), Some(sr), Some(bps), None, None)
        ELSE IF Len(ds) < 4
        THEN Parsed("StructError", Some(nc), Some(sr), Some(bps), None, None)
        ELSE Parsed(validate_format(nc, bps), Some(nc), Some(sr), Some(bps),
                    Some(ds), Some(data))

\* the fmt chunk's fields after the audio format
parse_fmt(f) ==
    IF Len(Read(f, 22, 2)) < 2
    THEN Parsed("StructError", None, None, None, None, None)
    ELSE LET nc == unpack_H(Read(f, 22, 2))
         IN  IF Len(Read(f, 24, 4)) < 4
             THEN Parsed("StructError", Some(nc), None, None, None, None)
             ELSE LET sr == Read(f, 24, 4)
                  IN  IF Len(Read(f, 28, 4)) < 4 \/ Len(Read(f, 32, 2)) < 2
                         \/ Len(Read(f, 34, 2)) < 2
                      THEN Parsed("StructError", Some(nc), Some(sr), None, None, None)
                      ELSE parse_chunks(f, nc, sr, unpack_H(Read(f, 34, 2)))

\* the whole parse of the bytes f
parse_wav(f) ==
    IF Read(f, 0, 4) # RIFF THEN Parsed("BadMagic", None, None, None, None, None)
    ELSE IF Len(Read(f, 4, 4)) < 4 THEN Parsed("StructError", None, None, None, None, None)
    ELSE IF Read(f, 8, 4) # WAVE THEN Parsed("BadFormatTag", None, None, None, None, None)
    ELSE IF Read(f, 12, 4) # FMT THEN Parsed("MissingFmtChunk", None, None, None, None, None)
    ELSE IF Len(Read(f, 16, 4)) < 4 \/ Len(Read(f, 20, 2)) < 2
    THEN Parsed("StructError", None, None, None, None, None)
    ELSE IF unpack_H(Read(f, 20, 2)) # 1
    THEN Parsed("UnsupportedCompression", None, None, None, None, None)
    ELSE parse_fmt(f)

\* wav_io.read_wav: the returned tuple, or the exception with nothing returned
returned(p) ==
    IF p.err = "none"
    THEN Parsed("none", p.num_channels, p.sample_rate, p.bits_per_sample, None, p.wav_data)
    ELSE Parsed(p.err, None, None, None, None, None)

read_wav(f) == returned(parse_wav(f))

-----------------------------------------------------------------------------
(* Writing: wav_io.write_wav and WAVProcessor.write_wav write alike *)

\* byte_rate = sample_rate * num_channels * bits_per_sample // 8
byte_rate(sr, nc, bps) == BigDivSmall(BigMulSmall(BigMulSmall(sr, nc), bps), 8)

\* block_align = num_channels * bits_per_sample // 8
block_align(nc, bps) == (nc * bps) \div 8

RECURSIVE write_fields(_, _)
\* the file after the writes of `fields` in order, each a packed value or None
\* where struct.pack raises: [err, bytes], the bytes written before the raise
write_fields(fields, written) ==
    IF fields = <<>> THEN [err |-> "none", bytes |-> written]
    ELSE IF IsNone(Head(fields)) THEN [err |-> "StructError", bytes |-> written]
    ELSE write_fields(Tail(fields), written \o Get(Head(fields)))

\* the body of `with open(output_path, 'wb') as f:` for present sample bytes
write_header_and_data(sr, nc, bps, data) ==
    write_fields(<<Some(RIFF), pack_I(BigOfInt(36 + Len(data))), Some(WAVE), Some(FMT),
                   pack_I(BigOfInt(16)), pack_H(1), pack_H(nc), pack_I(sr),
                   pack_I(byte_rate(sr, nc, bps)), pack_H(block_align(nc, bps)),
                   pack_H(bps), Some(DATA), pack_I(BigOfInt(Len(data))), Some(data)>>,
                 <<>>)

\* write_wav on the output file `old`: [err, file]; with no data the file is
\* not opened, otherwise it holds what was written before any exception
write_wav(old, sr, nc, bps, data) ==
    IF IsNone(data) THEN [err |-> "NoData", file |-> old]
    ELSE LET w == write_header_and_data(sr, nc, bps, Get(data))
         IN  [err |-> w.err, file |-> Some(w.bytes)]

-----------------------------------------------------------------------------
(* Sample formats and the two transforms.  A gain or a threshold is a       *)
(* fraction <<numerator, denominator>> with a positive denominator, or None *)
(* as an optional argument; the floats of the source are taken as exact.    *)

\* get_sample_format_info: [fmt, max_value, zero_value]; fmt "none" is the
\* ValueError for an unsupported depth, fmt "None" the 24-bit entry
get_sample_format_info(bps) ==
    CASE bps = 8  -> [fmt |-> "B", max_value |-> 255, zero_value |-> 128]
      [] bps = 16 -> [fmt |-> "h", max_value |-> 32767, zero_value |-> 0]
      [] bps = 24 -> [fmt |-> "None", max_value |-> 8388607, zero_value |-> 0]
      [] bps = 32 -> [fmt |-> "i", max_value |-> 2147483647, zero_value |-> 0]
      [] OTHER    -> [fmt |-> "none", max_value |-> 0, zero_value |-> 0]

\* struct.unpack of one sample of format B, h or i
unpack_sample(b, fmt) ==
    CASE fmt = "B" -> b[1]
      [] fmt = "h" -> b[1] + 256 * (IF b[2] >= 128 THEN b[2] - 256 ELSE b[2])
      [] fmt = "i" -> b[1] + 256 * b[2] + 65536 * b[3]
                      + 16777216 * (IF b[4] >= 128 THEN b[4] - 256 ELSE b[4])

\* whether struct.pack accepts v for format B, h or i
packable(v, fmt) ==
    CASE fmt = "B" -> 0 <= v /\ v <= 255
      [] fmt = "h" -> -32768 <= v /\ v <= 32767
      [] fmt = "i" -> TRUE

\* struct.pack of one packable sample, little-endian two's complement
pack_sample(v, fmt) ==
    CASE fmt = "B" -> <<v>>
      [] fmt = "h" -> <<v % 256, (v \div 256) % 256>>
      [] fmt = "i" -> <<v % 256, (v \div 256) % 256, (v \div 65536) % 256,
                        (v \div 16777216) % 256>>

\* int(sample_value * gain) as an unbounded integer: rounded toward zero
scaled(sample_value, gain) ==
    SignedTruncDiv(SignedMul(SignedOfInt(sample_value), SignedOfInt(gain[1])),
                   BigOfInt(gain[2]))

\* a clip whose upper limit is exclusive
clip_exclusive(v, min_value, max_value) == Max(min_value, Min(max_value - 1, v))

\* max(min_value, min(max_value, v))
clip(v, min_value, max_value) == Max(min_value, Min(max_value, v))

\* wav_processing._apply_gain
apply_gain(sample_value, gain, min_value, max_value) ==
    clip(SignedToInt(scaled(sample_value, gain)), min_value, max_value)

\* thresh_val = max_value * threshold, as the numerator over threshold[2]
thresh_num(threshold, max_value) ==
    SignedMul(SignedOfInt(max_value), SignedOfInt(threshold[1]))

\* abs(sample_value), as the numerator over threshold[2]
abs_num(sample_value, threshold) ==
    Signed(FALSE, BigMul(BigAbs(sample_value), BigOfInt(threshold[2])))

\* abs_sample > thresh_val
above_threshold(sample_value, threshold, max_value) ==
    ~SignedLe(abs_num(sample_value, threshold), thresh_num(threshold, max_value))

\* The cubic of both paths.  With d = threshold[2], T = thresh_num, A = abs_num
\* and E = A - T (excess = E / d):
\*   clipped = thresh_val + (excess - excess^3 / (3 * thresh_val^2))
\*           = (3 * A * T^2 - E^3) / (3 * d * T^2)
\* [num, den, thresh, max]: clipped, thresh_val and max_value are num / den,
\* thresh / den and max / den; den = 0 is the ZeroDivisionError
soft_clip_terms(T, A, E, T2, den, max_value) ==
    [num |-> SignedSub(SignedMul(SignedMul(SignedOfInt(3), A), T2),
                       SignedMul(E, SignedMul(E, E))),
     den |-> den.mag,
     thresh |-> SignedMul(SignedMul(SignedOfInt(3), T), T2),
     max |-> SignedMul(SignedOfInt(max_value), den)]

soft_clip_squares(T, A, T2, d, max_value) ==
    soft_clip_terms(T, A, SignedSub(A, T), T2, SignedMul(SignedOfInt(3 * d), T2), max_value)

soft_clip_of(T, A, d, max_value) ==
    soft_clip_squares(T, A, SignedMul(T, T), d, max_value)

soft_clip(sample_value, threshold, max_value) ==
    soft_clip_of(thresh_num(threshold, max_value), abs_num(sample_value, threshold),
                 threshold[2], max_value)

\* min(x, y) and max(x, y) of unbounded integers
SignedMin(x, y) == IF SignedLe(x, y) THEN x ELSE y

SignedMax(x, y) == IF SignedLe(x, y) THEN y ELSE x

\* sign * int(v) for sign = 1 if sample_value > 0 else -1
with_sign(sample_value, v) == IF sample_value > 0 THEN v ELSE SignedNeg(v)

\* a sample's result: the exception ("none": it has a value) and the value
Result(e, v) == [err |-> e, value |-> v]

\* the branch of _apply_anti_distortion above the threshold, c the cubic:
\* int(sign * min(max_value, max(thresh_val, clipped))), clipped to the format
anti_distortion_above(sample_value, c, max_value) ==
    IF c.den = <<>> THEN Result("ZeroDivisionError", sample_value)
    ELSE Result("none",
                clip(SignedToInt(with_sign(sample_value,
                         SignedTruncDiv(SignedMin(c.max, SignedMax(c.thresh, c.num)),
                                        c.den))),
                     -max_value - 1, max_value))

\* wav_processing._apply_anti_distortion
apply_anti_distortion(sample_value, threshold, max_value) ==
    IF ~above_threshold(sample_value, threshold, max_value)
    THEN Result("none", sample_value)
    ELSE anti_distortion_above(sample_value, soft_clip(sample_value, threshold, max_value),
                               max_value)

\* the body of the loop of process_standard_samples for the bias-removed
\* sample_value: the value stored back into samples[i]
process_sample(sample_value, info, gain, threshold, min_value) ==
    IF ~IsNone(gain)
    THEN Result("none", apply_gain(sample_value, Get(gain), min_value, info.max_value)
                        + (IF info.fmt = "B" THEN info.zero_value ELSE 0))
    ELSE LET r == apply_anti_distortion(sample_value, Get(threshold), info.max_value)
         IN  Result(r.err, r.value + (IF info.fmt = "B" THEN info.zero_value ELSE 0))

\* a loop's results joined: the first exception, or all the values in order
Joined(r, rest) ==
    IF r.err # "none" THEN [err |-> r.err, samples |-> <<>>]
    ELSE IF rest.err # "none" THEN rest
    ELSE [err |-> "none", samples |-> <<r.value>> \o rest.samples]

RECURSIVE map_samples(_, _, _, _, _, _)
\* the loop of process_standard_samples over the unpacked samples from index
\* i on: [err, samples], the new sample values or the first exception
map_samples(samples, i, info, gain, threshold, min_value) ==
    IF i > Len(samples) THEN [err |-> "none", samples |-> <<>>]
    ELSE Joined(process_sample(IF info.fmt = "B" THEN samples[i] - info.zero_value
                               ELSE samples[i],
                               info, gain, threshold, min_value),
                map_samples(samples, i + 1, info, gain, threshold, min_value))

RECURSIVE concat_packed(_, _)
\* struct.pack(format_str, *samples) of packable samples
concat_packed(samples, fmt) ==
    IF samples = <<>> THEN <<>>
    ELSE pack_sample(Head(samples), fmt) \o concat_packed(Tail(samples), fmt)

\* struct.unpack(format_str, wav_data) for a buffer of exactly the format's size
unpack_all(wav_data_, fmt, sample_size) ==
    [i \in 1..(Len(wav_data_) \div sample_size) |->
        unpack_sample(SubSeq(wav_data_, (i - 1) * sample_size + 1, i * sample_size), fmt)]

\* the outcome of a transform: the exception ("none": it returned) and the
\* bytes returned
Outcome(e, d) == [err |-> e, data |-> d]

\* return struct.pack(format_str, *samples) after the loop m
packed(m, fmt) ==
    IF m.err # "none" THEN Outcome(m.err, <<>>)
    ELSE IF \E i \in 1..Len(m.samples) : ~packable(m.samples[i], fmt)
    THEN Outcome("StructError", <<>>)
    ELSE Outcome("none", concat_packed(m.samples, fmt))

\* process_standard_samples from the unpack on, for the format info and the
\* lower clip bound min_value
standard_samples(wav_data_, sample_size, info, gain, threshold, min_value) ==
    IF info.fmt = "none" THEN Outcome("UnsupportedFormat", <<>>)
    ELSE IF info.fmt = "None" THEN Outcome("TypeError", <<>>)
    ELSE IF (Len(wav_data_) \div sample_size) * sample_size # Len(wav_data_)
    THEN Outcome("StructError", <<>>)
    ELSE packed(map_samples(unpack_all(wav_data_, info.fmt, sample_size), 1, info, gain,
                            threshold, min_value),
                info.fmt)

\* min_value = -max_value - 1 if zero_value == 0 else -zero_value
lower_bound(info) ==
    IF info.zero_value = 0 THEN -info.max_value - 1 ELSE -info.zero_value

\* wav_processing.process_standard_samples
process_standard_samples(wav_data_, bps, gain, threshold) ==
    IF IsNone(gain) = IsNone(threshold) THEN Outcome("InvalidArguments", <<>>)
    ELSE standard_samples(wav_data_, bps \div 8, get_sample_format_info(bps), gain,
                          threshold, lower_bound(get_sample_format_info(bps)))

\* the three bytes written for a 24-bit result v (unbounded): v + 0x1000000 if
\* negative, then & 0xFF of v, v >> 8 and v >> 16, which are those of v mod 2^24
bytes_24bit(v) ==
    LET m == [i \in 1..3 |-> IF i <= Len(v.mag) THEN v.mag[i] ELSE 0]
        low == m[1] + 256 * m[2] + 65536 * m[3]
        w == IF v.neg THEN (16777216 - low) % 16777216 ELSE low
    IN  <<w % 256, (w \div 256) % 256, (w \div 65536) % 256>>

\* the threshold branch of process_24bit_samples above the threshold, c the
\* cubic: int(sign * min(max_value, clipped)), not clipped further
anti_distortion_24bit(sample_value, c) ==
    IF c.den = <<>> THEN [err |-> "ZeroDivisionError", bytes |-> <<>>]
    ELSE [err |-> "none",
          bytes |-> bytes_24bit(with_sign(sample_value,
                        SignedTruncDiv(SignedMin(c.max, c.num), c.den)))]

\* the body of the loop of process_24bit_samples for the decoded sample_value
value_24bit(sample_value, gain, threshold, max_value) ==
    IF ~IsNone(gain)
    THEN [err |-> "none",
          bytes |-> bytes_24bit(SignedOfInt(
              clip(SignedToInt(scaled(sample_value, Get(gain))), -max_value, max_value)))]
    ELSE IF ~IsNone(threshold) /\ above_threshold(sample_value, Get(threshold), max_value)
    THEN anti_distortion_24bit(sample_value,
                               soft_clip(sample_value, Get(threshold), max_value))
    ELSE [err |-> "none", bytes |-> bytes_24bit(SignedOfInt(sample_value))]

\* b1 | (b2 << 8) | (b3 << 16), minus 0x1000000 if the sign bit is set
sign_extend_24bit(raw) == IF raw >= 8388608 THEN raw - 16777216 ELSE raw

decode_24bit(b) == sign_extend_24bit(b[1] + 256 * b[2] + 65536 * b[3])

\* the 24-bit loop's results joined: the first exception, or all the bytes
Joined24(r, rest) ==
    IF r.err # "none" THEN r
    ELSE IF rest.err # "none" THEN rest
    ELSE [err |-> "none", bytes |-> r.bytes \o rest.bytes]

RECURSIVE map_24bit(_, _, _, _, _)
\* the loop of process_24bit_samples from sample i (0-based) on: [err, bytes]
map_24bit(wav_data_, i, gain, threshold, max_value) ==
    IF i >= Len(wav_data_) \div 3 THEN [err |-> "none", bytes |-> <<>>]
    ELSE Joined24(value_24bit(decode_24bit(SubSeq(wav_data_, i * 3 + 1, i * 3 + 3)),
                              gain, threshold, max_value),
                  map_24bit(wav_data_, i + 1, gain, threshold, max_value))

\* return bytes(new_data): new_data starts as len(wav_data) zero bytes, and the
\* bytes after the last whole sample stay zero
new_data(m, length) ==
    IF m.err # "none" THEN Outcome(m.err, <<>>)
    ELSE Outcome("none", m.bytes \o [i \in 1..(length % 3) |-> 0])

\* wav_processing.process_24bit_samples
process_24bit_samples(wav_data_, gain, threshold) ==
    new_data(map_24bit(wav_data_, 0, gain, threshold, get_sample_format_info(24).max_value),
             Len(wav_data_))

\* min_value = -max_value if zero_value == 0 else -zero_value
WAVProcessor_lower_bound(info) ==
    IF info.zero_value = 0 THEN -info.max_value ELSE -info.zero_value

\* WAVProcessor._process_standard_samples: gain only, and the lower clip bound
\* is -max_value for the signed formats
WAVProcessor_process_standard_samples(wav_data_, bps, gain) ==
    standard_samples(wav_data_, bps \div 8, get_sample_format_info(bps), Some(gain), None,
                     WAVProcessor_lower_bound(get_sample_format_info(bps)))

\* WAVProcessor._process_24bit_samples: the gain branch of the 24-bit loop
WAVProcessor_process_24bit_samples(wav_data_, gain) ==
    process_24bit_samples(wav_data_, Some(gain), None)

\* gain < 0
negative(gain) == gain[1] < 0

\* self.wav_data after the sample processing r of amplify
amplified(data, r) ==
    IF r.err # "none" THEN Outcome(r.err, data) ELSE Outcome("none", Some(r.data))

\* WAVProcessor.amplify on the fields (data: None or the bytes): the exception
\* and the new wav_data
WAVProcessor_amplify(data, bps, gain) ==
    IF negative(gain) THEN Outcome("InvalidParameter", data)
    ELSE IF IsNone(data) THEN Outcome("NoData", data)
    ELSE amplified(data,
                   IF Get(bps) = 24
                   THEN WAVProcessor_process_24bit_samples(Get(data), gain)
                   ELSE WAVProcessor_process_standard_samples(Get(data), Get(bps), gain))

-----------------------------------------------------------------------------
(* The inputs the model runs on *)

\* most whole samples in a generated sample buffer
MaxSamples == 2

\* the sample rates of generated headers: 44100, 2^29 and 2^32 - 1
SampleRates == {<<68, 172, 0, 0>>, <<0, 0, 0, 32>>, <<255, 255, 255, 255>>}

\* gains: 0, 1/2, 1, 3/2, 2, 3 and the negative -1/2, -1
Gains == {<<0, 1>>, <<1, 2>>, <<1, 1>>, <<3, 2>>, <<2, 1>>, <<3, 1>>, <<-1, 2>>, <<-1, 1>>}

\* thresholds: 0, 1/4, 1/2, 3/4, 1 and, outside [0, 1], -1/2 and 3/2
Thresholds == {<<0, 1>>, <<1, 4>>, <<1, 2>>, <<3, 4>>, <<1, 1>>, <<-1, 2>>, <<3, 2>>}

\* the defaults of --gain (2.0) and --threshold (0.8)
DefaultGain == <<2, 1>>

DefaultThreshold == <<4, 5>>

\* one stored sample of each depth: zero, -1, the largest and the smallest
\* value, and one value at about 0.8 of full scale
SampleSet(bps) ==
    CASE bps = 8  -> {<<128>>, <<127>>, <<255>>, <<0>>, <<230>>}
      [] bps = 16 -> {<<0, 0>>, <<255, 255>>, <<255, 127>>, <<0, 128>>, <<0, 100>>}
      [] bps = 24 -> {<<0, 0, 0>>, <<255, 255, 255>>, <<255, 255, 127>>, <<0, 0, 128>>,
                      <<0, 0, 100>>}
      [] bps = 32 -> {<<0, 0, 0, 0>>, <<255, 255, 255, 255>>, <<255, 255, 255, 127>>,
                      <<0, 0, 0, 128>>, <<0, 0, 0, 100>>}

RECURSIVE Flatten(_)
Flatten(ss) == IF ss = <<>> THEN <<>> ELSE Head(ss) \o Flatten(Tail(ss))

\* sample buffers of up to MaxSamples whole samples, alone or followed by one
\* more byte (for the depths above 8 a remainder that is no whole sample)
Payloads(bps) ==
    { Flatten(ss) \o rem :
        ss \in UNION { [1..n -> SampleSet(bps)] : n \in 0..MaxSamples },
        rem \in {<<>>, <<200>>} }

\* the four little-endian bytes of n, 0 <= n < 2^31
U32(n) == Get(pack_I(BigOfInt(n)))

\* the two little-endian bytes of n, 0 <= n < 2^16
U16(n) == Get(pack_H(n))

\* a chunk that is not the data chunk: 'LIST', size 2, two bytes
ListChunk == <<76, 73, 83, 84>> \o U32(2) \o <<9, 9>>

\* a RIFF/WAVE file: the header with the fmt chunk (ext: its bytes after the
\* 16 standard ones), the chunks `pre`, then the data chunk declaring `declared`
Container(audio_format, nc, sr, bps, ext, pre, declared, payload) ==
    RIFF \o U32(36 + Len(ext) + Len(pre) + Len(payload)) \o WAVE
    \o FMT \o U32(16 + Len(ext)) \o U16(audio_format) \o U16(nc) \o sr
    \o <<0, 0, 0, 0>> \o U16(0) \o U16(bps) \o ext
    \o pre \o DATA \o declared \o payload

\* the canonical files: mono, 44100 Hz, every depth, every sample buffer
CanonicalFiles ==
    UNION { { Container(1, 1, <<68, 172, 0, 0>>, bps, <<>>, <<>>, U32(Len(p)), p) :
                p \in Payloads(bps) } : bps \in {8, 16, 24, 32} }

\* every channel count, depth and sample rate of the header, supported or not
HeaderFiles ==
    { Container(1, nc, sr, bps, <<>>, <<>>, U32(3), <<0, 128, 255>>) :
        nc \in {0, 1, 2, 3}, bps \in {8, 12, 16, 24, 32}, sr \in SampleRates }

\* fmt extension bytes, a chunk before the data chunk, and a data size that is
\* exact, larger or smaller than the bytes present, or 2^32 - 1
LayoutFiles ==
    { Container(1, 2, <<68, 172, 0, 0>>, bps, ext, pre, declared, p) :
        bps \in {8, 16, 24, 32}, ext \in {<<>>, <<0, 0>>}, pre \in {<<>>, ListChunk},
        p \in {<<>>, <<0, 128, 255>>, <<0, 128, 255, 127>>},
        declared \in {U32(0), U32(2), U32(3), U32(4), U32(7), <<255, 255, 255, 255>>} }

\* every prefix of a file with a skipped chunk, and of one whose header is
\* unsupported: the input ends anywhere
PrefixFiles ==
    UNION { { SubSeq(f, 1, n) : n \in 0..Len(f) } :
        f \in { Container(1, 1, <<68, 172, 0, 0>>, 16, <<>>, ListChunk, U32(2), <<0, 128>>),
                Container(1, 3, <<68, 172, 0, 0>>, 12, <<0, 0>>, ListChunk, U32(2),
                          <<0, 128>>) } }

\* a wrong literal or a compressed format
BadFiles ==
    { <<82, 73, 70, 88>> \o U32(36) \o WAVE \o FMT,
      RIFF \o U32(36) \o <<87, 65, 86, 88>> \o FMT,
      RIFF \o U32(36) \o WAVE \o <<102, 109, 116, 88>>,
      Container(3, 1, <<68, 172, 0, 0>>, 16, <<>>, <<>>, U32(2), <<0, 128>>) }

\* the files handed to a WAVProcessor that is called freely: supported ones,
\* one with three channels, one with 12 bits, one with 12 bits and no data
\* chunk, and one that is no RIFF file
ProcessorFiles ==
    { Container(1, 1, <<68, 172, 0, 0>>, 16, <<>>, <<>>, U32(4), <<0, 128, 255, 127>>),
      Container(1, 2, <<68, 172, 0, 0>>, 8, <<>>, <<>>, U32(2), <<255, 128>>),
      Container(1, 1, <<68, 172, 0, 0>>, 24, <<>>, <<>>, U32(3), <<255, 255, 127>>),
      Container(1, 3, <<68, 172, 0, 0>>, 16, <<>>, <<>>, U32(2), <<0, 128>>),
      Container(1, 1, <<68, 172, 0, 0>>, 12, <<>>, <<>>, U32(2), <<0, 128>>),
      SubSeq(Container(1, 1, <<68, 172, 0, 0>>, 12, <<>>, <<>>, U32(0), <<>>), 1, 36),
      <<82, 73, 70, 88>> \o U32(36) \o WAVE \o FMT }

\* most calls made on one WAVProcessor that is called freely
MaxCalls == 3

Files == CanonicalFiles \cup HeaderFiles \cup LayoutFiles \cup PrefixFiles \cup BadFiles

\* the streams a caller hands to write_wav directly: every supported format,
\* with no buffer, an empty one, or whole samples
Streams ==
    { [sample_rate |-> sr, num_channels |-> nc, bits_per_sample |-> bps, wav_data |-> d] :
        sr \in SampleRates, nc \in {1, 2}, bps \in {8, 16, 24, 32},
        d \in {None, Some(<<>>), Some(<<0, 128, 255, 127, 1, 2, 3, 4, 5, 6, 7, 8>>)} }

\* the command lines: --action with its own option, the others at their defaults
CommandLines ==
    { [action |-> "amplify", gain |-> g, threshold |-> DefaultThreshold] : g \in Gains }
    \cup { [action |-> a, gain |-> DefaultGain, threshold |-> DefaultThreshold] :
             a \in {"anti-distortion", "noise-removal"} }

-----------------------------------------------------------------------------
(* The state machine.  A run is either a caller of the module functions      *)
(* (wav_io, wav_processing): read_wav of the input file, one process_* call, *)
(* write_wav; or a caller that hands write_wav a stream of its own; or the   *)
(* command line (wav_cli.main) driving one WAVProcessor.                     *)

\* the arguments of a process_* call: exactly one of gain and threshold, and
\* the two misuses (neither, both)
TransformArgs ==
    { [gain |-> Some(g), threshold |-> None] : g \in Gains }
    \cup { [gain |-> None, threshold |-> Some(t)] : t \in Thresholds }
    \cup { [gain |-> None, threshold |-> None],
           [gain |-> Some(DefaultGain), threshold |-> Some(<<1, 2>>)] }

NoArgs == [action |-> "none", gain |-> None, threshold |-> None]

InitLib ==
    /\ input \in Files
    /\ pc = "lib_start"
    /\ sample_rate = None /\ num_channels = None /\ bits_per_sample = None
    /\ wav_data = None
    /\ args = NoArgs

InitStream ==
    /\ input = <<>>
    /\ pc = "lib_stream"
    /\ \E st \in Streams :
          /\ sample_rate = Some(st.sample_rate)
          /\ num_channels = Some(st.num_channels)
          /\ bits_per_sample = Some(st.bits_per_sample)
          /\ wav_data = st.wav_data
    /\ args = NoArgs

\* WAVProcessor.__init__ and the parsed arguments of main
InitCli ==
    /\ input \in Files
    /\ pc = "cli_start"
    /\ sample_rate = None /\ num_channels = None /\ bits_per_sample = None
    /\ wav_data = None
    /\ \E c \in CommandLines :
          args = [action |-> c.action, gain |-> Some(c.gain), threshold |-> Some(c.threshold)]

\* WAVProcessor.__init__ of a processor whose methods a caller calls freely
InitProcessor ==
    /\ input = <<>>
    /\ pc = "processor_new"
    /\ sample_rate = None /\ num_channels = None /\ bits_per_sample = None
    /\ wav_data = None
    /\ args = NoArgs

Init ==
    /\ (InitLib \/ InitStream \/ InitCli \/ InitProcessor)
    /\ output = None
    /\ err = "none"
    /\ data_size = None
    /\ before = None
    /\ calls = <<>>

\* sample_rate, num_channels, bits_per_sample, wav_data = read_wav(path)
LibRead ==
    /\ pc = "lib_start"
    /\ LET r == read_wav(input)
       IN  /\ err' = r.err
           /\ pc' = IF r.err = "none" THEN "lib_decoded" ELSE "lib_failed"
           /\ sample_rate' = r.sample_rate
           /\ num_channels' = r.num_channels
           /\ bits_per_sample' = r.bits_per_sample
           /\ wav_data' = r.wav_data
    /\ calls' = Append(calls, "read_wav")
    /\ UNCHANGED <<input, output, data_size, args, before>>

\* the caller's state after a process_* call that returned or raised r
Transformed(name, a, r) ==
    /\ err' = r.err
    /\ pc' = IF r.err = "none" THEN "lib_transformed" ELSE "lib_failed"
    /\ wav_data' = IF r.err = "none" THEN Some(r.data) ELSE wav_data
    /\ before' = wav_data
    /\ args' = [action |-> name, gain |-> a.gain, threshold |-> a.threshold]
    /\ calls' = Append(calls, name)
    /\ UNCHANGED <<input, output, sample_rate, num_channels, bits_per_sample, data_size>>

\* wav_data = process_standard_samples(wav_data, bits_per_sample, gain, threshold)
LibProcessStandard ==
    /\ pc = "lib_decoded"
    /\ Get(bits_per_sample) # 24
    /\ \E a \in TransformArgs :
          Transformed("process_standard_samples", a,
                      process_standard_samples(Get(wav_data), Get(bits_per_sample),
                                               a.gain, a.threshold))

\* wav_data = process_24bit_samples(wav_data, gain, threshold)
LibProcess24bit ==
    /\ pc = "lib_decoded"
    /\ Get(bits_per_sample) = 24
    /\ \E a \in TransformArgs :
          Transformed("process_24bit_samples", a,
                      process_24bit_samples(Get(wav_data), a.gain, a.threshold))

\* write_wav(output_path, sample_rate, num_channels, bits_per_sample, wav_data)
LibWrite ==
    /\ pc \in {"lib_decoded", "lib_transformed", "lib_stream"}
    /\ LET w == write_wav(output, Get(sample_rate), Get(num_channels),
                          Get(bits_per_sample), wav_data)
       IN  /\ output' = w.file
           /\ err' = w.err
           /\ pc' = IF w.err = "none" THEN "lib_written" ELSE "lib_failed"
    /\ calls' = Append(calls, "write_wav")
    /\ UNCHANGED <<input, sample_rate, num_channels, bits_per_sample, data_size,
                   wav_data, args, before>>

\* a field after a read that assigned `new` (None: the read did not get there)
Assigned(old, new) == IF IsNone(new) THEN old ELSE new

\* WAVProcessor.read_wav(path): the fields are assigned as they are parsed, so
\* a read that raises leaves those it had reached
WAVProcessor_read_wav(f) ==
    LET p == parse_wav(f)
    IN  /\ err' = p.err
        /\ num_channels' = Assigned(num_channels, p.num_channels)
        /\ sample_rate' = Assigned(sample_rate, p.sample_rate)
        /\ bits_per_sample' = Assigned(bits_per_sample, p.bits_per_sample)
        /\ data_size' = Assigned(data_size, p.data_size)
        /\ wav_data' = Assigned(wav_data, p.wav_data)
        /\ calls' = Append(calls, "read_wav")

\* WAVProcessor.write_wav(output_path)
WAVProcessor_write_wav ==
    LET w == IF IsNone(wav_data) THEN [err |-> "NoData", file |-> output]
             ELSE write_wav(output, Get(sample_rate), Get(num_channels),
                            Get(bits_per_sample), wav_data)
    IN  /\ output' = w.file
        /\ err' = w.err
        /\ calls' = Append(calls, "write_wav")

\* processor.read_wav(args.path); an exception ends main with exit status 1
CliRead ==
    /\ pc = "cli_start"
    /\ WAVProcessor_read_wav(input)
    /\ pc' = IF err' = "none" THEN "cli_read" ELSE "cli_exit1"
    /\ UNCHANGED <<input, output, args, before>>

\* the processor after amplify returned or raised r
Amplified(r) ==
    /\ err' = r.err
    /\ wav_data' = r.data
    /\ before' = wav_data
    /\ calls' = Append(calls, "amplify")

\* if args.action == "amplify": processor.amplify(args.gain); no other action
\* has a branch
CliAction ==
    /\ pc = "cli_read"
    /\ IF args.action = "amplify"
       THEN /\ Amplified(WAVProcessor_amplify(wav_data, bits_per_sample, Get(args.gain)))
            /\ pc' = IF err' = "none" THEN "cli_processed" ELSE "cli_exit1"
       ELSE /\ pc' = "cli_processed"
            /\ UNCHANGED <<err, wav_data, before, calls>>
    /\ UNCHANGED <<input, output, sample_rate, num_channels, bits_per_sample, data_size,
                   args>>

\* processor.write_wav(args.output), then "Processing complete!" and exit 0
CliWrite ==
    /\ pc = "cli_processed"
    /\ WAVProcessor_write_wav
    /\ pc' = IF err' = "none" THEN "cli_exit0" ELSE "cli_exit1"
    /\ UNCHANGED <<input, sample_rate, num_channels, bits_per_sample, data_size,
                   wav_data, args, before>>

\* processor.read_wav(path) on a freely called processor; pc tells whether a
\* read_wav has returned yet ("processor_loaded") or none has ("processor_new")
ProcessorRead ==
    /\ pc \in {"processor_new", "processor_loaded"}
    /\ Len(calls) < MaxCalls
    /\ \E f \in ProcessorFiles :
          /\ input' = f
          /\ WAVProcessor_read_wav(f)
    /\ pc' = IF err' = "none" THEN "processor_loaded" ELSE pc
    /\ UNCHANGED <<output, args, before>>

\* processor.amplify(gain) on a freely called processor
ProcessorAmplify ==
    /\ pc \in {"processor_new", "processor_loaded"}
    /\ Len(calls) < MaxCalls
    /\ \E g \in Gains :
          /\ Amplified(WAVProcessor_amplify(wav_data, bits_per_sample, g))
          /\ args' = [action |-> "amplify", gain |-> Some(g), threshold |-> None]
    /\ UNCHANGED <<input, output, pc, sample_rate, num_channels, bits_per_sample,
                   data_size>>

\* processor.write_wav(output_path) on a freely called processor
ProcessorWrite ==
    /\ pc \in {"processor_new", "processor_loaded"}
    /\ Len(calls) < MaxCalls
    /\ WAVProcessor_write_wav
    /\ UNCHANGED <<input, pc, sample_rate, num_channels, bits_per_sample, data_size,
                   wav_data, args, before>>

Next ==
    \/ LibRead
    \/ LibProcessStandard
    \/ LibProcess24bit
    \/ LibWrite
    \/ CliRead
    \/ CliAction
    \/ CliWrite
    \/ ProcessorRead
    \/ ProcessorAmplify
    \/ ProcessorWrite

Spec == Init /\ [][Next]_vars

-----------------------------------------------------------------------------
(* Properties *)

\* the call that was made last ("none" before the first)
LastCall == IF calls = <<>> THEN "none" ELSE calls[Len(calls)]

\* a process_* call or amplify was the last call
TransformRan == LastCall \in {"process_standard_samples", "process_24bit_samples", "amplify"}

\* the last call applied the gain g alone, to a loaded buffer
GainRan(g) ==
    /\ TransformRan
    /\ ~IsNone(before)
    /\ args.gain = Some(g)
    /\ LastCall = "amplify" \/ args.threshold = None

\* the last call applied the threshold t alone
ThresholdRan(t) ==
    /\ LastCall \in {"process_standard_samples", "process_24bit_samples"}
    /\ args.gain = None
    /\ args.threshold = Some(t)

\* bytes per sample of the loaded stream
SampleWidth == Get(bits_per_sample) \div 8

\* the i-th whole sample of a buffer, 1-based
SampleAt(data, i) == SubSeq(data, (i - 1) * SampleWidth + 1, i * SampleWidth)

\* the stored form of the most negative value of a signed format of w bytes,
\* and of that value plus one
MostNegative(w) == [k \in 1..w |-> IF k = w THEN 128 ELSE 0]

MostNegativePlusOne(w) == [k \in 1..w |-> IF k = w THEN 128 ELSE IF k = 1 THEN 1 ELSE 0]

\* the stream handed to write_wav directly has a supported format and a
\* buffer of whole samples
DirectStreamWritten ==
    /\ calls = <<"write_wav">>
    /\ ~IsNone(wav_data)
    /\ Len(Get(wav_data)) % SampleWidth = 0

\* C1: decoding the bytes that encode produced for a supported stream with a
\* buffer of whole samples yields the same sample rate, channel count, bit
\* depth and sample bytes.
C1_RoundTrip ==
    DirectStreamWritten =>
        /\ err = "none"
        /\ ~IsNone(output)
        /\ read_wav(Get(output))
             = Parsed("none", num_channels, sample_rate, bits_per_sample, None, wav_data)

\* the header's declared data size exceeds the sample bytes that were read
OverDeclared ==
    /\ ~IsNone(data_size)
    /\ BigCmp(BigNorm(Get(data_size)), BigOfInt(Len(Get(wav_data)))) > 0

\* the arguments of the last transform are ones the transform accepts: a gain
\* that is not negative, or a threshold in (0, 1]
AcceptedArgs ==
    \/ \E g \in Gains : ~negative(g) /\ GainRan(g)
    \/ \E t \in Thresholds : t[1] > 0 /\ t[1] <= t[2] /\ ThresholdRan(t)

\* C2: a data chunk that declares more bytes than remain does not make decode
\* fail, and a transform of a payload whose length is no multiple of the
\* sample width does not fail: the remainder bytes are ignored.
C2_RemainderIgnored ==
    /\ (calls = <<"read_wav">> /\ OverDeclared
          /\ Get(num_channels) \in {1, 2} /\ Get(bits_per_sample) \in {8, 16, 24, 32})
       => err = "none"
    /\ (TransformRan /\ AcceptedArgs /\ Len(Get(before)) % SampleWidth # 0)
       => err = "none"

\* C3: Gain(1.0) leaves every sample as it was, at every bit depth, except
\* that the most negative value of a signed format may come out as that value
\* plus one (the clip at the extremal value).
C3_GainOneIdentity ==
    (GainRan(<<1, 1>>) /\ err = "none") =>
        /\ Len(Get(wav_data)) = Len(Get(before))
        /\ \A i \in 1..(Len(Get(before)) \div SampleWidth) :
              \/ SampleAt(Get(wav_data), i) = SampleAt(Get(before), i)
              \/ /\ SampleWidth >= 2
                 /\ SampleAt(Get(before), i) = MostNegative(SampleWidth)
                 /\ SampleAt(Get(wav_data), i) = MostNegativePlusOne(SampleWidth)

\* Gain(1.0) has returned on two 16-bit samples, the first the largest value
C3_Witness ==
    /\ GainRan(<<1, 1>>)
    /\ err = "none"
    /\ Get(bits_per_sample) = 16
    /\ Len(Get(before)) = 4
    /\ SampleAt(Get(before), 1) = <<255, 127>>

\* C4: a negative gain fails with InvalidParameter on every entry point that
\* applies gain, and no transformed samples are produced.
C4_NegativeGainRejected ==
    \A g \in Gains :
        (negative(g) /\ GainRan(g)) => (err = "InvalidParameter" /\ wav_data = before)

\* C5: a threshold outside [0, 1] fails with InvalidParameter on the
\* byte-aligned path and on the 24-bit path, for every buffer.
C5_ThresholdRangeRejected ==
    \A t \in Thresholds :
        ((t[1] < 0 \/ t[1] > t[2]) /\ ThresholdRan(t)) => err = "InvalidParameter"

\* C6: a command-line run that succeeds has decoded, then applied exactly the
\* transform of its action, then encoded; encode never comes without it.
C6_PipelineOrder ==
    pc = "cli_exit0" =>
        /\ Len(calls) = 3
        /\ calls[1] = "read_wav"
        /\ calls[2] = (IF args.action = "amplify" THEN "amplify" ELSE "anti_distortion")
        /\ calls[3] = "write_wav"

\* C7: when decode, the transform or encode fails, the output path holds no
\* new file or a complete one (the 44-byte header and all the sample bytes).
C7_NoPartialOutput ==
    err # "none" =>
        \/ IsNone(output)
        \/ Len(Get(output)) = 44 + Len(Get(wav_data))

\* the header through the fmt chunk's 16 bytes is present and valid PCM
ValidFmt(f) ==
    /\ Len(f) >= 36
    /\ Read(f, 0, 4) = RIFF
    /\ Read(f, 8, 4) = WAVE
    /\ Read(f, 12, 4) = FMT
    /\ unpack_H(Read(f, 20, 2)) = 1

\* the number of extension bytes the declared fmt chunk size makes the scan skip
FmtExtension(f) ==
    IF f[19] # 0 \/ f[20] # 0 THEN Len(f) - 36
    ELSE Min(Max(f[17] + 256 * f[18] - 16, 0), Len(f) - 36)

RECURSIVE DataChunkAt(_, _)
\* the offset of the first chunk ID 'data' met when walking the chunks from
\* pos, or -1 when the input ends before one is met (at a chunk boundary,
\* inside a chunk ID, inside a size field or inside a chunk body)
DataChunkAt(f, pos) ==
    IF Len(f) - pos < 4 THEN -1
    ELSE IF Read(f, pos, 4) = DATA THEN pos
    ELSE IF Len(f) - pos < 8 THEN -1
    ELSE DataChunkAt(f, pos + 8 + ReadCount(Read(f, pos + 4, 4), Len(f) - (pos + 8)))

\* the offset of the data chunk of an input with a valid fmt chunk, or -1
DataChunk(f) == DataChunkAt(f, 36 + FmtExtension(f))

\* C8: an input with a valid header through the fmt chunk that ends before a
\* chunk ID 'data' is met fails with DataChunkNotFound, wherever it ends.
C8_ExhaustedInput ==
    (calls = <<"read_wav">> /\ ValidFmt(input) /\ DataChunk(input) = -1)
        => err = "DataChunkNotFound"

\* the channel count and the bit depth the fmt chunk of f declares
DeclaredChannels(f) == unpack_H(Read(f, 22, 2))

DeclaredBits(f) == unpack_H(Read(f, 34, 2))

\* what the validation of the declared format answers
Rejection(f) ==
    IF DeclaredChannels(f) \notin {1, 2} THEN "UnsupportedChannelCount"
    ELSE IF DeclaredBits(f) \notin {8, 16, 24, 32} THEN "UnsupportedFormat"
    ELSE "none"

\* C9 as stated: every input whose fmt chunk declares an unsupported channel
\* count fails with UnsupportedChannelCount, every input with a supported
\* count and an unsupported bit depth with UnsupportedFormat.
C9_AsStated ==
    (calls = <<"read_wav">> /\ ValidFmt(input) /\ Rejection(input) # "none")
        => err = Rejection(input)

\* f has a data chunk with its whole 4-byte size field
HasDataChunk(f) == DataChunk(f) >= 0 /\ Len(f) >= DataChunk(f) + 8

\* C9: of the inputs with a valid fmt chunk and a data chunk with its size
\* field, every one that declares an unsupported channel count fails with
\* UnsupportedChannelCount, every one with a supported count and an
\* unsupported bit depth with UnsupportedFormat (the count is checked first);
\* and no read returns a channel count or bit depth outside the supported sets.
C9_ValidationAfterData ==
    calls = <<"read_wav">> =>
        /\ (ValidFmt(input) /\ HasDataChunk(input)) => err = Rejection(input)
        /\ err = "none" =>
              /\ Get(num_channels) \in {1, 2}
              /\ Get(bits_per_sample) \in {8, 16, 24, 32}

\* a read of an input with three channels, 12 bits and a data chunk has failed
C9_Witness ==
    /\ calls = <<"read_wav">>
    /\ ValidFmt(input)
    /\ HasDataChunk(input)
    /\ DeclaredChannels(input) = 3
    /\ DeclaredBits(input) = 12
    /\ err = "UnsupportedChannelCount"

\* C10: write_wav of a stream with a buffer succeeds and produces the 44-byte
\* canonical header (chunk size 36 + n, fmt size 16, format 1, byte rate and
\* block align derived, data size n) followed by the n sample bytes; it fails,
\* with NoData, only when the buffer is absent.
C10_CanonicalHeader ==
    LastCall = "write_wav" =>
        IF IsNone(wav_data) THEN err = "NoData"
        ELSE LET n == Len(Get(wav_data))
                 nc == Get(num_channels)
                 bps == Get(bits_per_sample)
             IN  /\ err = "none"
                 /\ ~IsNone(output)
                 /\ Len(Get(output)) = 44 + n
                 /\ Read(Get(output), 0, 4) = RIFF
                 /\ Read(Get(output), 4, 4) = U32(36 + n)
                 /\ Read(Get(output), 8, 4) = WAVE
                 /\ Read(Get(output), 12, 4) = FMT
                 /\ Read(Get(output), 16, 4) = U32(16)
                 /\ Read(Get(output), 20, 2) = U16(1)
                 /\ Read(Get(output), 22, 2) = U16(nc)
                 /\ Read(Get(output), 24, 4) = Get(sample_rate)
                 /\ Some(Read(Get(output), 28, 4)) = pack_I(byte_rate(Get(sample_rate), nc, bps))
                 /\ Read(Get(output), 32, 2) = U16(block_align(nc, bps))
                 /\ Read(Get(output), 34, 2) = U16(bps)
                 /\ Read(Get(output), 36, 4) = DATA
                 /\ Read(Get(output), 40, 4) = U32(n)
                 /\ Read(Get(output), 44, n) = Get(wav_data)

\* the value a stored sample of the loaded stream's format stands for (the
\* raw byte for the 8-bit format)
SampleValue(b) ==
    IF SampleWidth = 3 THEN decode_24bit(b)
    ELSE unpack_sample(b, get_sample_format_info(Get(bits_per_sample)).fmt)

\* the largest magnitude of the loaded stream's format
MaxMagnitude == get_sample_format_info(Get(bits_per_sample)).max_value

\* the lower clamp bound of Gain: -maxMagnitude for the 24-bit path,
\* -maxMagnitude - 1 for the byte-aligned signed formats
GainLowerBound == IF SampleWidth = 3 THEN -MaxMagnitude ELSE -MaxMagnitude - 1

\* s * g rounded toward zero and clamped to the bounds of Gain
GainOf(s, g) == Max(GainLowerBound, Min(MaxMagnitude, SignedToInt(scaled(s, g))))

\* C11: for every gain that is not negative, every implementation of gain
\* (process_standard_samples, process_24bit_samples, WAVProcessor.amplify)
\* turns each 16-, 24- or 32-bit sample s into s * g rounded toward zero and
\* clamped to [-maxMagnitude - 1, maxMagnitude] (16 and 32 bits) or to
\* [-maxMagnitude, maxMagnitude] (24 bits).
C11_GainClamped ==
    \A g \in Gains :
        (~negative(g) /\ GainRan(g) /\ err = "none"
           /\ Get(bits_per_sample) \in {16, 24, 32})
        => \A i \in 1..(Len(Get(before)) \div SampleWidth) :
              SampleValue(SampleAt(Get(wav_data), i))
                = GainOf(SampleValue(SampleAt(Get(before), i)), g)

\* the signed value of a stored sample: the bias of the 8-bit format removed
SignedValue(b) == SampleValue(b) - get_sample_format_info(Get(bits_per_sample)).zero_value

\* |r| is at least thresh = maxMagnitude * t, up to the rounding toward zero
\* of the result: (|r| + 1) * t[2] > maxMagnitude * t[1]
ReachesThreshold(r, t) ==
    BigCmp(BigMulSmall(BigAdd(BigAbs(r), <<1>>), t[2]),
           BigMulSmall(BigAbs(MaxMagnitude), t[1])) > 0

\* r is what AntiDistortion(t) may return for the sample s
SoftClipped(s, r, t) ==
    IF ~above_threshold(s, t, MaxMagnitude) THEN r = s
    ELSE /\ s > 0 => r >= 0
         /\ s < 0 => r <= 0
         /\ -MaxMagnitude <= r /\ r <= MaxMagnitude
         /\ ReachesThreshold(r, t)

\* C12: for every threshold in [0, 1], AntiDistortion of a buffer of whole
\* samples completes without error on both paths; a sample whose magnitude is
\* at most thresh = maxMagnitude * threshold is unchanged, any other keeps its
\* sign and gets a magnitude between thresh and maxMagnitude.
C12_SoftClipRange ==
    \A t \in Thresholds :
        (t[1] >= 0 /\ t[1] <= t[2] /\ ThresholdRan(t)
           /\ Len(Get(before)) % SampleWidth = 0)
        => /\ err = "none"
           /\ \A i \in 1..(Len(Get(before)) \div SampleWidth) :
                 SoftClipped(SignedValue(SampleAt(Get(before), i)),
                             SignedValue(SampleAt(Get(wav_data), i)), t)

\* the bias-removed 8-bit sample of the byte b times g, rounded toward zero
\* and clamped to [-zeroBias, maxMagnitude] = [-128, 255]
EightBitGainOf(b, g) == Max(-128, Min(255, SignedToInt(scaled(b - 128, g))))

\* C13: for every 8-bit buffer and every gain that is not negative, the gain
\* transform succeeds and returns a buffer of the same length in which each
\* byte is the clamped bias-removed result plus 128 and lies in [0, 255].
C13_EightBitGain ==
    \A g \in Gains :
        (~negative(g) /\ GainRan(g) /\ Get(bits_per_sample) = 8)
        => /\ err = "none"
           /\ Len(Get(wav_data)) = Len(Get(before))
           /\ \A i \in 1..Len(Get(before)) :
                 /\ Get(wav_data)[i] \in 0..255
                 /\ Get(wav_data)[i] = EightBitGainOf(Get(before)[i], g) + 128

\* C14: in any sequence of read_wav, amplify and write_wav calls on one
\* WAVProcessor, amplify and write_wav succeed only after a read_wav that
\* returned; until one has returned no data is loaded, whatever reads have
\* raised; and whenever data is loaded the channel count is 1 or 2 and the bit
\* depth 8, 16, 24 or 32.
C14_LoadedOnlyAfterRead ==
    /\ (pc = "processor_new" /\ LastCall \in {"amplify", "write_wav"}) => err # "none"
    /\ pc = "processor_new" => IsNone(wav_data)
    /\ (pc \in {"processor_new", "processor_loaded"} /\ ~IsNone(wav_data))
       => /\ Get(num_channels) \in {1, 2}
          /\ Get(bits_per_sample) \in {8, 16, 24, 32}

====
